---- MODULE Spec2Model ----
(***************************************************************************)
(* Refinement engine of easydiffraction: Analysis.fit, the fitting         *)
(* workflow DiffractionMinimizer.fit, the minimizer template               *)
(* MinimizerBase (fit, objective, chi-square tracking, finalisation) and   *)
(* the lmfit adapter's translation of parameters to backend names.         *)
(*                                                                         *)
(* MinimizerBase leaves _prepare_solver_args and _sync_result_to_parameters*)
(* abstract; the model fills them with the one concrete adapter of the     *)
(* source, LmfitMinimizer (parameters keyed by sanitized cif_name).  The   *)
(* solver itself (lmfit) and the pattern calculator are external: the      *)
(* solver is a nondeterministic choice of trial vectors, the calculator a  *)
(* fixed pure function of the parameter values.                            *)
(*                                                                         *)
(* Floating-point quantities are exact rationals [k, n, d]; k also names   *)
(* the IEEE results inf and nan that numpy produces on division by zero.   *)
(***************************************************************************)
EXTENDS Integers, Sequences, FiniteSets, TLC

\* ------------------------------------------------------------ bounds
\* fit calls in a behaviour, objective evaluations in a behaviour, largest trial value
MaxFits == 2
MaxEvals == 2
MaxVal == 1
\* assignments to a parameter value by the user in a behaviour
MaxEdits == 1
MaxSwitches == 2
\* evaluations tracked in one solver run, largest residual handed to the tracker
MaxTracked == 3
MaxResidual == 2
\* operations on an experiment's components in a behaviour
MaxOps == 3

Vals == 0..MaxVal

\* ------------------------------------------------------------ rationals
Abs(x) == IF x < 0 THEN -x ELSE x

RECURSIVE Gcd(_, _)
Gcd(a, b) == IF b = 0 THEN a ELSE Gcd(b, a % b)

Rat(n, d) ==
    LET g == Gcd(Abs(n), Abs(d))
        s == IF d < 0 THEN -1 ELSE 1
    IN  [k |-> "num", n |-> (s * n) \div g, d |-> (s * d) \div g]

NoneF == [k |-> "none", n |-> 0, d |-> 1]
InfF == [k |-> "inf", n |-> 1, d |-> 1]
NanF == [k |-> "nan", n |-> 0, d |-> 1]

RatAdd(a, b) == Rat(a.n * b.d + b.n * a.d, a.d * b.d)
RatSq(a) == Rat(a.n * a.n, a.d * a.d)

\* x / y for a finite x >= 0 and an integer y, as numpy divides a float64
FloatDiv(x, y) ==
    IF y # 0 THEN Rat(x.n, x.d * y)
    ELSE IF x.n = 0 THEN NanF ELSE InfF

\* a < b on floats: every comparison with nan is false
FloatLess(a, b) ==
    CASE a.k = "nan" \/ b.k = "nan" -> FALSE
      [] a.k = "inf" -> FALSE
      [] b.k = "inf" -> TRUE
      [] OTHER -> a.n * b.d < b.n * a.d

\* ------------------------------------------------------------ project data
\* the Parameter attributes: cell.length_a and each experiment's linked-phase scale
Params == {"a", "s1", "s2"}

\* the Descriptor attributes: space_group.name and each linked phase's id
Descriptors == {"sg", "id1", "id2"}

InitValue(p) == 1

CifName(p) == IF p = "a" THEN <<"length_a">> ELSE <<"scale">>

X(e) == IF e = 1 THEN <<1>> ELSE <<1, 2>>
Meas(e) == IF e = 1 THEN <<4>> ELSE <<7, 9>>
MeasSu(e) == IF e = 1 THEN <<1>> ELSE <<1, 2>>
Bkg(e) == IF e = 1 THEN <<1>> ELSE <<1, 1>>

NPts(e) == Len(X(e))

VARIABLES
    nModels, nExpts, calculator, free, hasData,
    value, start_value, uncertainty,
    pc, entry, why, err, parameters, lm_params, tracker,
    result, results, fit_results,
    fits, evals, spent, edits, solverRuns, callValue, callStart, last, fitEvals,
    ended,
    selection, switches, selTried, selErr,
    beam_mode, peak_profile_type, peak, background_type, background, comp,
    nextId, ops, lastOp, exptErr

\* the refinement engine and its history
fitVars == <<nModels, nExpts, calculator, free, hasData, value, start_value, uncertainty,
             pc, entry, why, err, parameters, lm_params, tracker,
             result, results, fit_results,
             fits, evals, spent, edits, solverRuns, callValue, callStart, last, fitEvals,
             ended>>

\* the backend selection of the Analysis object: fitter.selection, and the
\* history of the assignments to current_minimizer
selVars == <<selection, switches, selTried, selErr>>

\* one experiment's components: its peak and background with their recorded
\* types, a component under attribute assignment, and the history of the
\* operations on them
exptVars == <<beam_mode, peak_profile_type, peak, background_type, background, comp,
              nextId, ops, lastOp, exptErr>>

vars == <<fitVars, selVars, exptVars>>

config == <<nModels, nExpts, calculator, free, hasData>>

Exists(p) ==
    CASE p = "a" -> nModels >= 1
      [] p = "s1" -> nExpts >= 1
      [] p = "s2" -> nExpts >= 2

\* ------------------------------------------------------------ collection
Range(s) == {s[i] : i \in DOMAIN s}

\* the attributes (Descriptor or Parameter) a sample model owns, in the order
\* of construction, and those of the experiments
ModelParams == IF nModels >= 1 THEN <<"sg", "a">> ELSE <<>>

ExptParams == SubSeq(<<"id1", "s1", "id2", "s2">>, 1, 2 * nExpts)

\* as GetFreeParams, every owned attribute returned
M_GetAllParams(owned) == owned

GetFreeParams(owned) == SelectSeq(owned, LAMBDA p : p \in Params /\ free[p])

\* as CollectFreeParameters, the experiments' parameters taken first
M_CollectExperimentsFirst == GetFreeParams(ExptParams) \o GetFreeParams(ModelParams)

CollectFreeParameters == GetFreeParams(ModelParams) \o GetFreeParams(ExptParams)

\* ------------------------------------------------------------ lmfit adapter
RECURSIVE Sanitize(_)
Sanitize(s) ==
    IF s = <<>> THEN <<>>
    ELSE LET c == Head(s)
             r == Sanitize(Tail(s))
         IN  CASE c = "[" -> <<"_">> \o r
               [] c = "]" -> r
               [] c = "." -> <<"_">> \o r
               [] c = "'" -> r
               [] OTHER -> <<c>> \o r

LmfitName(p) == Sanitize(CifName(p))

EmptyLm == [names |-> <<>>, vals |-> <<>>]

LmIndex(lm, name) == CHOOSE k \in DOMAIN lm.names : lm.names[k] = name

\* lmfit.Parameters.add: an ordered dict, a name added again replaces its entry
LmAdd(lm, name, v) ==
    IF \E k \in DOMAIN lm.names : lm.names[k] = name
    THEN [lm EXCEPT !.vals[LmIndex(lm, name)] = v]
    ELSE [names |-> Append(lm.names, name), vals |-> Append(lm.vals, v)]

RECURSIVE LmBuild(_, _, _)
LmBuild(lm, ps, val) ==
    IF ps = <<>> THEN lm
    ELSE LmBuild(LmAdd(lm, LmfitName(Head(ps)), val[Head(ps)]), Tail(ps), val)

PrepareSolverArgs(ps, val) == LmBuild(EmptyLm, ps, val)

\* as SyncResultToParameters, every collected parameter put back to its start_value
M_SyncRollsBack(ps, lm, val) ==
    [p \in Params |->
        IF p \in Range(ps) /\ start_value[p] # <<>> THEN start_value[p][1] ELSE val[p]]

\* the objective's update loop: param.value = lm_params[lmfit_name].value
SyncResultToParameters(ps, lm, val) ==
    [p \in Params |->
        IF p \in Range(ps) THEN lm.vals[LmIndex(lm, LmfitName(p))] ELSE val[p]]

\* ------------------------------------------------------------ calculator
NoCalc == "none"

ScaleOf(e) == IF e = 1 THEN "s1" ELSE "s2"

CalculatePattern(val, e) ==
    [i \in 1..NPts(e) |->
        IF nModels = 0 THEN 0 ELSE val[ScaleOf(e)] * (val["a"] + X(e)[i])]

\* the calculator rejects a structure whose cell length is zero
CalculatorRaises(val, e) == nModels >= 1 /\ val["a"] = 0

\* ------------------------------------------------------------ objective
\* y_calc as the residual loop takes it for experiment e
YCalc(val, e) == CalculatePattern(val, e)

ExptResiduals(val, e) ==
    [i \in 1..NPts(e) |-> Rat(Meas(e)[i] - YCalc(val, e)[i], MeasSu(e)[i])]

\* as ResidualsFrom, the experiments taken last to first
RECURSIVE M_ResidualsLastFirst(_, _)
M_ResidualsLastFirst(val, e) ==
    IF e > nExpts THEN <<>>
    ELSE M_ResidualsLastFirst(val, e + 1) \o ExptResiduals(val, e)

RECURSIVE ResidualsFrom(_, _)
ResidualsFrom(val, e) ==
    IF e > nExpts THEN <<>>
    ELSE ExptResiduals(val, e) \o ResidualsFrom(val, e + 1)

Residuals(val) == ResidualsFrom(val, 1)

\* what stops the residual loop at experiment e: calculator is None
\* (attribute lookup), calculate_pattern raises, or meas / meas_su is None
FailKind(val, e) ==
    CASE calculator = NoCalc -> "AttributeError"
      [] CalculatorRaises(val, e) -> "CalculatorError"
      [] ~hasData[e] -> "TypeError"
      [] OTHER -> "none"

\* the experiment at which the residual loop raises, 0 when it completes
FirstFailure(val) ==
    IF \E e \in 1..nExpts : FailKind(val, e) # "none"
    THEN CHOOSE e \in 1..nExpts :
            /\ FailKind(val, e) # "none"
            /\ \A f \in 1..(e - 1) : FailKind(val, f) = "none"
    ELSE 0

\* as CallsBefore, the loop going on to the remaining experiments
M_CallsGoOn(val, k) == nExpts

\* calls of calculate_pattern begun before the loop raised at experiment k
CallsBefore(val, k) == IF FailKind(val, k) = "AttributeError" THEN 0 ELSE k

RECURSIVE SumSq(_)
SumSq(r) == IF r = <<>> THEN Rat(0, 1) ELSE RatAdd(RatSq(Head(r)), SumSq(Tail(r)))

RedChi2(residuals, nparams) == FloatDiv(SumSq(residuals), Len(residuals) - nparams)

\* ------------------------------------------------------------ tracker
ImproveDen == 100

\* (previous - red) / previous > 0.01 in float arithmetic
Improved(prev, red) ==
    CASE prev.k = "nan" \/ red.k = "nan" -> FALSE
      [] prev.k = "inf" -> FALSE
      [] red.k = "inf" -> prev.n < 0
      [] prev.n = 0 -> red.n < 0
      [] OTHER ->
            LET q == Rat((prev.n * red.d - red.n * prev.d) * prev.d,
                         prev.d * red.d * prev.n)
            IN  ImproveDen * q.n > q.d

NewTracker ==
    [previous |-> NoneF, iteration |-> 0, best |-> NoneF, best_iteration |-> <<>>]

TrackChiSquare(t, residuals, nparams) ==
    LET red == RedChi2(residuals, nparams)
        t1 == IF t.previous.k = "none"
              THEN [previous |-> red, iteration |-> t.iteration,
                    best |-> red, best_iteration |-> <<t.iteration>>]
              ELSE IF Improved(t.previous, red)
                   THEN [t EXCEPT !.iteration = @ + 1, !.previous = red]
                   ELSE t
    IN  IF t1.best.k = "none" \/ FloatLess(red, t1.best)
        THEN [t1 EXCEPT !.best = red, !.best_iteration = <<t1.iteration>>]
        ELSE t1

\* ------------------------------------------------------------ results
\* an attribute that is None, and one that is set
None == <<>>

Some(v) == <<v>>

\* what lmfit's minimize returns: the final parameters, whether it converged,
\* and whether it could estimate standard errors (stderr, one per parameter)
RawResults == [params : {lm_params}, success : BOOLEAN, errorbars : BOOLEAN]

StdErr(raw, k) == IF raw.errorbars THEN Some(k) ELSE None

FitResults(ps, redchi, raw) ==
    [success |-> FALSE, parameters |-> ps, reduced_chi_square |-> redchi,
     message |-> "", iterations |-> 0, raw_result |-> raw]

NoEval ==
    [vec |-> <<>>, params |-> <<>>, ycalc |-> <<>>, residuals |-> <<>>,
     tracked |-> FALSE, calls |-> 0, raisedAt |-> 0]

\* ------------------------------------------------------------ backend registry
\* the selection Analysis starts with
DefaultSelection == "lmfit (leastsq)"

\* the names the registry knows: both select the lmfit adapter
KnownSelections == {"lmfit (leastsq)", "lmfit (least_squares)"}

\* the names a caller may assign to current_minimizer
Selections == KnownSelections \cup {"bogus"}

\* as CreateMinimizer, an unknown name answered with no minimizer and no error
M_CreateMinimizerLenient(sel) ==
    [raised |-> FALSE, engine |-> IF sel \in KnownSelections THEN "lmfit" ELSE "none"]

\* MinimizerFactory.create_minimizer: the adapter of a known name, a
\* configuration error for any other
CreateMinimizer(sel) ==
    IF sel \in KnownSelections
    THEN [raised |-> FALSE, engine |-> "lmfit"]
    ELSE [raised |-> TRUE, engine |-> "none"]

\* ------------------------------------------------------------ experiment components
BeamModes == {"constant wavelength", "time-of-flight"}

\* PeakFactory._supported_profiles: the profiles of a beam mode, the default first
SupportedProfiles(beam) ==
    IF beam = "constant wavelength"
    THEN <<"pseudo-voigt", "split pseudo-voigt", "thompson-cox-hastings">>
    ELSE <<"pseudo-voigt", "ikeda-carpenter", "pseudo-voigt * ikeda-carpenter",
           "pseudo-voigt * back-to-back">>

CwBroadening ==
    {"broad_gauss_u", "broad_gauss_v", "broad_gauss_w", "broad_lorentz_x",
     "broad_lorentz_y"}

TofGauss == {"broad_gauss_sigma_0", "broad_gauss_sigma_1", "broad_gauss_sigma_2"}

TofLorentz == {"broad_lorentz_gamma_0", "broad_lorentz_gamma_1", "broad_lorentz_gamma_2"}

IkedaCarpenter == {"asym_alpha_0", "asym_alpha_1"}

\* the parameter set of a profile class
ProfileAttrs(beam, profile) ==
    IF beam = "constant wavelength"
    THEN CASE profile = "pseudo-voigt" -> CwBroadening
           [] profile = "split pseudo-voigt" ->
                 CwBroadening \cup {"asym_empir_1", "asym_empir_2", "asym_empir_3",
                                    "asym_empir_4"}
           [] profile = "thompson-cox-hastings" ->
                 CwBroadening \cup {"asym_fcj_1", "asym_fcj_2"}
    ELSE CASE profile = "pseudo-voigt" -> TofGauss \cup TofLorentz
           [] profile = "ikeda-carpenter" -> TofGauss \cup IkedaCarpenter
           [] profile = "pseudo-voigt * ikeda-carpenter" ->
                 TofGauss \cup TofLorentz \cup IkedaCarpenter
           [] profile = "pseudo-voigt * back-to-back" ->
                 TofGauss \cup TofLorentz \cup IkedaCarpenter

\* Peak._get_default_profile: next(iter(self._supported_profiles))
DefaultProfile(beam) == SupportedProfiles(beam)[1]

\* Peak(beam_mode): the default profile with its parameter set
NewPeak(beam, id) ==
    [id |-> id, profile |-> DefaultProfile(beam),
     attrs |-> ProfileAttrs(beam, DefaultProfile(beam))]

\* as PeakFactoryCreate, the peak built with the parameter set of the profile asked for
M_CreatePeakOfProfile(beam, profile, id) ==
    [id |-> id, profile |-> profile, attrs |-> ProfileAttrs(beam, profile)]

\* PeakFactory.create for a supported profile_type: return Peak(beam_mode)
PeakFactoryCreate(beam, profile, id) == NewPeak(beam, id)

\* whether PeakFactory has the attribute _supported that
\* PowderExperiment.peak_profile_type reads: the class defines
\* _supported_profiles only
PeakFactoryHasSupported == FALSE

\* the names a caller may assign to peak_profile_type
ProfileNames ==
    {"pseudo-voigt", "split pseudo-voigt", "thompson-cox-hastings", "ikeda-carpenter",
     "bogus"}

DefaultPeakProfileType == "pseudo-voigt"

DefaultBackgroundType == "line-segment"

\* BackgroundFactory._supported
SupportedBackgrounds == {"line-segment", "chebyshev polynomial"}

\* the names a caller may assign to background_type
BackgroundNames == SupportedBackgrounds \cup {"bogus"}

\* as BackgroundFactoryCreate, the new background starting with one row
M_CreateWithRow(type, id) == [id |-> id, type |-> type, data |-> <<<<1, 1>>>>]

\* BackgroundFactory.create for a supported type: background_class(), no rows
BackgroundFactoryCreate(type, id) == [id |-> id, type |-> type, data |-> <<>>]

\* PowderExperiment.__init__: the peak and the background of a new experiment
ExperimentAsCreated(beam) ==
    /\ beam_mode = beam
    /\ peak_profile_type = DefaultPeakProfileType
    /\ peak = NewPeak(beam, 1)
    /\ background_type = DefaultBackgroundType
    /\ background = BackgroundFactoryCreate(DefaultBackgroundType, 2)
    /\ nextId = 5
    /\ ops = 0
    /\ lastOp = [op |-> "none", arg |-> "none", had |-> 0]
    /\ exptErr = "none"

\* the classes whose __setattr__ guards a locked component
ComponentClasses == {"StandardComponent", "Instrument", "Peak"}

AttrNames == {"par", "des", "new"}

NoAttr == [kind |-> "absent", id |-> 0, value |-> 0]

\* a component after construction: a Parameter under "par"; a Descriptor
\* under "des" on a StandardComponent (as ExperimentType's) and on a Peak
\* (its _profile_type); nothing under "new"
NewComponent(cls, locked) ==
    [cls |-> cls,
     locked |-> locked,
     slots |-> [n \in AttrNames |->
                  CASE n = "par" -> [kind |-> "Parameter", id |-> 3, value |-> 0]
                    [] n = "des" /\ cls \in {"StandardComponent", "Peak"} ->
                          [kind |-> "Descriptor", id |-> 4, value |-> 0]
                    [] OTHER -> NoAttr]]

\* the kinds of object whose value the class's __setattr__ assigns in place:
\* isinstance(attr, (Descriptor, Parameter)) in StandardComponent,
\* isinstance(current, Parameter) in Instrument and Peak
InPlaceKinds(cls) ==
    IF cls = "StandardComponent" THEN {"Parameter", "Descriptor"} ELSE {"Parameter"}

\* what assigning to a missing name on a locked component raises: Instrument
\* and Peak raise AttributeError, StandardComponent prints and returns
MissingNameError(cls) == IF cls = "StandardComponent" THEN "none" ELSE "AttributeError"

\* ------------------------------------------------------------ state machine
\* the refinement engine and the backend selection after construction
InitEngine ==
    /\ nModels \in 0..1
    /\ nExpts \in 0..2
    /\ calculator \in {NoCalc, "cryspy"}
    /\ free \in {f \in [Params -> BOOLEAN] : \A p \in Params : f[p] => Exists(p)}
    /\ hasData \in {h \in [1..2 -> BOOLEAN] : \A e \in 1..2 : e > nExpts => h[e]}
    /\ value = [p \in Params |-> InitValue(p)]
    /\ start_value = [p \in Params |-> None]
    /\ uncertainty = [p \in Params |-> None]
    /\ pc = "idle"
    /\ entry = "none"
    /\ why = "none"
    /\ err = "none"
    /\ parameters = <<>>
    /\ lm_params = EmptyLm
    /\ tracker = NewTracker
    /\ result = None
    /\ results = None
    /\ fit_results = None
    /\ fits = 0
    /\ evals = 0
    /\ spent = 0
    /\ edits = 0
    /\ solverRuns = 0
    /\ callValue = value
    /\ callStart = start_value
    /\ last = NoEval
    /\ fitEvals = <<>>
    /\ ended = {}
    /\ selection = DefaultSelection
    /\ switches = 0
    /\ selTried = "none"
    /\ selErr = "none"

Init ==
    /\ InitEngine
    /\ ExperimentAsCreated("constant wavelength")
    /\ comp = NewComponent("StandardComponent", TRUE)

\* what a call of Analysis.fit that ended leaves to its caller: the exception
\* that left it, the value it returned (always None), whether it put a new
\* FitResults into fit_results, and that object's success flag and message
Outcome(exc, before, after) ==
    [exc |-> exc,
     returned |-> None,
     fresh |-> after # None /\ after # before,
     success |-> IF after = None THEN None ELSE Some(after[1].success),
     message |-> IF after = None THEN None ELSE Some(after[1].message)]

\* history: the kinds of ending seen so far on Analysis.fit, each with its outcome
CallEnds(kind, exc, before, after) ==
    IF entry' = "analysis"
    THEN ended \cup {[kind |-> kind, outcome |-> Outcome(exc, before, after)]}
    ELSE ended

\* as Ready, a fit call beginning whatever the engine is doing
M_ReadyWhileInFlight == fits < MaxFits

\* a fit call may begin when no fit is in flight
Ready == pc \in {"idle", "done", "aborted", "raised"} /\ fits < MaxFits

\* the solver is started only while the behaviour has evaluations left
Budget == spent < MaxEvals

\* history of the call that begins: what the parameters held when fit() was called
BeginCall(e) ==
    /\ fits' = fits + 1
    /\ entry' = e
    /\ err' = "none"
    /\ evals' = 0
    /\ solverRuns' = 0
    /\ callValue' = value
    /\ callStart' = start_value
    /\ last' = NoEval
    /\ fitEvals' = <<>>
    /\ UNCHANGED <<spent, edits>>

\* as AnalysisPrecondition, the calculator guard forgotten
M_PreconditionWithoutCalculator == nModels > 0 /\ nExpts > 0

\* between fit calls nothing of the last call is in flight: its locals are
\* gone and the record of what it did is cleared
CallOver ==
    /\ pc' = "idle"
    /\ why' = "none"
    /\ entry' = "none"
    /\ err' = "none"
    /\ lm_params' = EmptyLm
    /\ evals' = 0
    /\ solverRuns' = 0
    /\ callValue' = value'
    /\ callStart' = start_value'
    /\ last' = NoEval
    /\ fitEvals' = <<>>

\* the user assigns a parameter's value while no fit is in flight
UserSetValue ==
    /\ pc \in {"idle", "done", "aborted", "raised"}
    /\ edits < MaxEdits
    /\ \E p \in Params : \E v \in Vals :
          /\ Exists(p)
          /\ v # value[p]
          /\ value' = [value EXCEPT ![p] = v]
    /\ edits' = edits + 1
    /\ UNCHANGED <<config, uncertainty, start_value, parameters,
                   tracker, result, results, fit_results, fits, spent>>
    /\ UNCHANGED ended
    /\ CallOver
    /\ UNCHANGED <<selVars, exptVars>>

\* the user fixes a free parameter (free = False) while no fit is in flight
UserFixParameter ==
    /\ pc \in {"idle", "done", "aborted", "raised"}
    /\ edits < MaxEdits
    /\ \E p \in Params :
          /\ free[p]
          /\ free' = [free EXCEPT ![p] = FALSE]
    /\ edits' = edits + 1
    /\ UNCHANGED <<nModels, nExpts, calculator, hasData, value, uncertainty, start_value,
                   parameters, tracker, result, results, fit_results, fits, spent>>
    /\ UNCHANGED ended
    /\ CallOver
    /\ UNCHANGED <<selVars, exptVars>>

\* SampleModels.remove, the user removes the sample model while no fit is in flight
RemoveSampleModel ==
    /\ pc \in {"idle", "done", "aborted", "raised"}
    /\ nModels = 1
    /\ nModels' = 0
    /\ free' = [free EXCEPT !["a"] = FALSE]
    /\ UNCHANGED <<nExpts, calculator, hasData, value, start_value, uncertainty, parameters,
                   tracker, result, results, fit_results, fits, spent, edits>>
    /\ UNCHANGED ended
    /\ CallOver
    /\ UNCHANGED <<selVars, exptVars>>

AnalysisPrecondition == nModels > 0 /\ nExpts > 0 /\ calculator # NoCalc

\* Analysis.fit, one of its three guards returns
AnalysisFitRejected ==
    /\ Ready
    /\ ~AnalysisPrecondition
    /\ BeginCall("analysis")
    /\ pc' = "aborted"
    /\ why' = "precondition"
    /\ UNCHANGED <<config, uncertainty, value, start_value, parameters, lm_params, tracker,
                   result, results, fit_results>>
    /\ ended' = CallEnds("precondition", "none", fit_results, fit_results')
    /\ UNCHANGED <<selVars, exptVars>>

\* Analysis.fit passes its guards; DiffractionMinimizer.fit collects
AnalysisFitCollect ==
    /\ Ready
    /\ Budget
    /\ AnalysisPrecondition
    /\ BeginCall("analysis")
    /\ parameters' = CollectFreeParameters
    /\ pc' = "collected"
    /\ why' = "none"
    /\ UNCHANGED <<config, uncertainty, value, start_value, lm_params, tracker,
                   result, results, fit_results>>
    /\ UNCHANGED ended
    /\ UNCHANGED <<selVars, exptVars>>

\* MinimizerBase.fit called on the minimizer itself: it collects, without guards
BaseFitCollect ==
    /\ Ready
    /\ Budget
    /\ BeginCall("base")
    /\ parameters' = CollectFreeParameters
    /\ pc' = "collected"
    /\ why' = "none"
    /\ UNCHANGED <<config, uncertainty, value, start_value, lm_params, tracker,
                   result, results, fit_results>>
    /\ UNCHANGED ended
    /\ UNCHANGED <<selVars, exptVars>>

\* DiffractionMinimizer.fit returns None; Analysis.fit stores fitter.results
AbortNoFree ==
    /\ pc = "collected"
    /\ entry = "analysis"
    /\ parameters = <<>>
    /\ pc' = "aborted"
    /\ why' = "no_free"
    /\ fit_results' = results
    /\ UNCHANGED <<config, uncertainty, value, start_value, parameters, lm_params, tracker,
                   result, results, entry, err, fits, evals, spent, edits, solverRuns,
                   callValue, callStart, last, fitEvals>>
    /\ ended' = CallEnds("no_free", "none", fit_results, fit_results')
    /\ UNCHANGED <<selVars, exptVars>>

\* as SnapshotStartValues, writing only a start_value that is still unset
M_SnapshotOnlyUnset(ps, val, sv) ==
    [p \in Params |->
        IF p \in Range(ps) /\ sv[p] = <<>> THEN <<val[p]>> ELSE sv[p]]

SnapshotStartValues(ps, val, sv) ==
    [p \in Params |-> IF p \in Range(ps) THEN Some(val[p]) ELSE sv[p]]

\* start values, solver arguments, and the solver is started
StartSolver ==
    /\ pc = "collected"
    /\ entry = "base" \/ parameters # <<>>
    /\ start_value' = SnapshotStartValues(parameters, value, start_value)
    /\ lm_params' = PrepareSolverArgs(parameters, value)
    /\ solverRuns' = solverRuns + 1
    /\ pc' = "optimizing"
    /\ UNCHANGED <<config, uncertainty, value, parameters, tracker, result, results,
                   fit_results, entry, why, err, fits, evals, spent, edits, callValue, callStart,
                   last, fitEvals>>
    /\ UNCHANGED ended
    /\ UNCHANGED <<selVars, exptVars>>

\* as ObjectiveParameters, the objective collecting anew from the experiments only
M_ObjectiveRecollects == GetFreeParams(ExptParams)

\* the parameter list the objective closure holds: the list collected by fit()
ObjectiveParameters == parameters

\* the trial vectors the solver may pass: the initial point first
TrialVectors ==
    IF evals = 0 THEN {lm_params.vals}
    ELSE [DOMAIN lm_params.vals -> Vals]

\* one objective evaluation whose residual loop raises: the exception leaves
\* the objective, the solver and the fit call
EvaluateRaises ==
    /\ pc = "optimizing"
    /\ spent < MaxEvals
    /\ \E vec \in TrialVectors :
          /\ lm_params' = [lm_params EXCEPT !.vals = vec]
          /\ value' = SyncResultToParameters(ObjectiveParameters, lm_params', value)
    /\ LET k == FirstFailure(value')
       IN  /\ k # 0
           /\ err' = FailKind(value', k)
           /\ last' = [vec |-> lm_params'.vals,
                       params |-> ObjectiveParameters,
                       ycalc |-> [e \in 1..(k - 1) |-> YCalc(value', e)],
                       residuals |-> <<>>,
                       tracked |-> FALSE,
                       calls |-> CallsBefore(value', k),
                       raisedAt |-> k]
    /\ evals' = evals + 1
    /\ spent' = spent + 1
    /\ pc' = "raised"
    /\ UNCHANGED <<config, uncertainty, start_value, parameters, tracker, result,
                   results, fit_results, entry, why, fits, edits, solverRuns,
                   callValue, callStart, fitEvals>>
    /\ ended' = CallEnds("raised", err', fit_results, fit_results')
    /\ UNCHANGED <<selVars, exptVars>>

\* one objective evaluation: sync, residuals of every experiment, tracking
Evaluate ==
    /\ pc = "optimizing"
    /\ spent < MaxEvals
    /\ \E vec \in TrialVectors :
          /\ lm_params' = [lm_params EXCEPT !.vals = vec]
          /\ value' = SyncResultToParameters(ObjectiveParameters, lm_params', value)
    /\ FirstFailure(value') = 0
    /\ LET residuals == Residuals(value')
       IN  /\ tracker' = TrackChiSquare(tracker, residuals, Len(ObjectiveParameters))
           /\ last' = [vec |-> lm_params'.vals,
                       params |-> ObjectiveParameters,
                       ycalc |-> [e \in 1..nExpts |-> YCalc(value', e)],
                       residuals |-> residuals,
                       tracked |-> TRUE,
                       calls |-> nExpts,
                       raisedAt |-> 0]
           /\ fitEvals' = Append(fitEvals, RedChi2(residuals, Len(ObjectiveParameters)))
    /\ evals' = evals + 1
    /\ spent' = spent + 1
    /\ UNCHANGED <<config, uncertainty, start_value, parameters, result, results,
                   fit_results, entry, why, err, fits, edits, solverRuns, callValue,
                   callStart, pc>>
    /\ UNCHANGED ended
    /\ UNCHANGED <<selVars, exptVars>>

\* the solver returns its last iterate; _finalize_fit; the callers store the result
SolverReturn ==
    /\ pc = "optimizing"
    /\ evals >= 1
    /\ value' = SyncResultToParameters(parameters, lm_params, value)
    /\ \E raw \in RawResults :
          result' = Some(FitResults(parameters, tracker.best, raw))
    /\ IF entry = "analysis"
       THEN results' = result' /\ fit_results' = result'
       ELSE UNCHANGED <<results, fit_results>>
    /\ pc' = "done"
    /\ UNCHANGED <<config, uncertainty, start_value, parameters, lm_params, tracker,
                   entry, why, err, fits, evals, spent, edits, solverRuns, callValue, callStart,
                   last, fitEvals>>
    /\ ended' = CallEnds(IF result'[1].raw_result.success
                          THEN "completed" ELSE "not_converged",
                          "none", fit_results, fit_results')
    /\ UNCHANGED <<selVars, exptVars>>

Next ==
    \/ UserSetValue
    \/ RemoveSampleModel
    \/ AnalysisFitRejected
    \/ AnalysisFitCollect
    \/ BaseFitCollect
    \/ AbortNoFree
    \/ StartSolver
    \/ EvaluateRaises
    \/ Evaluate
    \/ SolverReturn

Spec == Init /\ [][Next]_vars

\* ------------------------------------------------------------ session with backend switches
\* as SwitchFrame, the switch putting every parameter back to its initial value
M_SwitchResetsValues ==
    /\ value' = [p \in Params |-> InitValue(p)]
    /\ UNCHANGED <<config, start_value, uncertainty, fit_results, fits, spent, edits, ended>>

\* what the setter of current_minimizer does not touch: it assigns self.fitter only
SwitchFrame ==
    UNCHANGED <<config, value, start_value, uncertainty, fit_results, fits, spent,
                edits, ended>>

\* Analysis.current_minimizer = sel: a new DiffractionMinimizer is built and,
\* when its construction returns, becomes the fitter
SetCurrentMinimizer ==
    /\ pc \in {"idle", "done", "aborted", "raised"}
    /\ switches < MaxSwitches
    /\ \E sel \in Selections :
          /\ selTried' = sel
          /\ IF CreateMinimizer(sel).raised
             THEN /\ selErr' = "ConfigurationError"
                  /\ UNCHANGED <<selection, parameters, tracker, result, results>>
             ELSE /\ selErr' = "none"
                  /\ selection' = sel
                  /\ parameters' = <<>>
                  /\ tracker' = NewTracker
                  /\ result' = None
                  /\ results' = None
    /\ switches' = switches + 1
    /\ SwitchFrame
    /\ CallOver
    /\ UNCHANGED exptVars

\* a project of one sample model and one experiment with data, refined
\* through Analysis.fit
InitSession ==
    /\ Init
    /\ nModels = 1
    /\ nExpts = 1
    /\ \A e \in 1..2 : hasData[e]

NextSession ==
    \/ UserSetValue
    \/ UserFixParameter
    \/ AnalysisFitRejected
    \/ AnalysisFitCollect
    \/ AbortNoFree
    \/ StartSolver
    \/ EvaluateRaises
    \/ Evaluate
    \/ SolverReturn
    \/ SetCurrentMinimizer

SessionSpec == InitSession /\ [][NextSession]_vars

\* ------------------------------------------------------------ tracker under any residuals
\* the residual vectors an objective evaluation may hand to the tracker: one or
\* two points, each residual a small whole number
ResidualInputs ==
    UNION {[1..n -> {Rat(v, 1) : v \in 0..MaxResidual}] : n \in 1..2}

\* a solver run at its start, over one or two free parameters
InitTracker ==
    /\ nModels = 1
    /\ nExpts = 1
    /\ calculator = "cryspy"
    /\ parameters \in {<<"s1">>, <<"a", "s1">>}
    /\ free = [p \in Params |-> p \in Range(parameters)]
    /\ hasData = [e \in 1..2 |-> TRUE]
    /\ value = [p \in Params |-> InitValue(p)]
    /\ start_value = SnapshotStartValues(parameters, value, [p \in Params |-> None])
    /\ uncertainty = [p \in Params |-> None]
    /\ pc = "optimizing"
    /\ entry = "analysis"
    /\ why = "none"
    /\ err = "none"
    /\ lm_params = PrepareSolverArgs(parameters, value)
    /\ tracker = NewTracker
    /\ result = None
    /\ results = None
    /\ fit_results = None
    /\ fits = 1
    /\ evals = 0
    /\ spent = 0
    /\ edits = 0
    /\ solverRuns = 1
    /\ callValue = value
    /\ callStart = [p \in Params |-> None]
    /\ last = NoEval
    /\ fitEvals = <<>>
    /\ ended = {}
    /\ selection = DefaultSelection
    /\ switches = 0
    /\ selTried = "none"
    /\ selErr = "none"
    /\ ExperimentAsCreated("constant wavelength")
    /\ comp = NewComponent("StandardComponent", TRUE)

\* the end of one objective evaluation: the residuals of all points are handed
\* to _track_chi_square (the number of points is that of the first evaluation)
TrackResiduals ==
    /\ pc = "optimizing"
    /\ evals < MaxTracked
    /\ \E r \in ResidualInputs :
          /\ evals >= 1 => Len(r) = Len(last.residuals)
          /\ tracker' = TrackChiSquare(tracker, r, Len(ObjectiveParameters))
          /\ fitEvals' = Append(fitEvals, RedChi2(r, Len(ObjectiveParameters)))
          /\ last' = [last EXCEPT !.params = ObjectiveParameters,
                                  !.residuals = r,
                                  !.tracked = TRUE]
    /\ evals' = evals + 1
    /\ spent' = spent + 1
    /\ UNCHANGED <<config, value, start_value, uncertainty, pc, entry, why, err,
                   parameters, lm_params, result, results, fit_results, fits, edits,
                   solverRuns, callValue, callStart, ended>>
    /\ UNCHANGED <<selVars, exptVars>>

NextTracker == TrackResiduals

TrackerSpec == InitTracker /\ [][NextTracker]_vars

\* ------------------------------------------------------------ experiment setters
\* the first and second value of a background row: (x, y) of a Point,
\* (order, coef) of a PolynomialTerm
RowValues == 1..2

AttrValues == 1..2

\* what every operation on the experiment's components leaves alone
ExptFrame == UNCHANGED <<fitVars, selVars, beam_mode>>

\* LineSegmentBackground.add / ChebyshevPolynomialBackground.add: append one row
BackgroundAdd ==
    /\ ops < MaxOps
    /\ \E v \in RowValues :
          /\ background' = [background EXCEPT !.data = Append(@, <<Len(@) + 1, v>>)]
          /\ lastOp' = [op |-> "add", arg |-> "none", had |-> Len(background.data)]
    /\ exptErr' = "none"
    /\ ops' = ops + 1
    /\ UNCHANGED <<background_type, peak, peak_profile_type, comp, nextId>>
    /\ ExptFrame

\* PowderExperiment.background_type setter
SetBackgroundType ==
    /\ ops < MaxOps
    /\ \E new_type \in BackgroundNames :
          /\ lastOp' = [op |-> "background_type", arg |-> new_type,
                        had |-> Len(background.data)]
          /\ IF new_type \notin SupportedBackgrounds
             THEN UNCHANGED <<background, background_type, nextId>>
             ELSE /\ background' = BackgroundFactoryCreate(new_type, nextId)
                  /\ background_type' = new_type
                  /\ nextId' = nextId + 1
    /\ exptErr' = "none"
    /\ ops' = ops + 1
    /\ UNCHANGED <<peak, peak_profile_type, comp>>
    /\ ExptFrame

\* the profile names of a beam mode
ProfilesOf(beam) == {SupportedProfiles(beam)[i] : i \in DOMAIN SupportedProfiles(beam)}

\* PowderExperiment.peak_profile_type setter: its first statement reads
\* PeakFactory._supported
SetPeakProfileType ==
    /\ ops < MaxOps
    /\ \E new_type \in ProfileNames :
          /\ lastOp' = [op |-> "peak_profile_type", arg |-> new_type, had |-> peak.id]
          /\ IF ~PeakFactoryHasSupported
             THEN /\ exptErr' = "AttributeError"
                  /\ UNCHANGED <<peak, peak_profile_type, nextId>>
             ELSE /\ exptErr' = "none"
                  /\ IF new_type \notin ProfilesOf(beam_mode)
                     THEN UNCHANGED <<peak, peak_profile_type, nextId>>
                     ELSE /\ peak' = PeakFactoryCreate(beam_mode, new_type, nextId)
                          /\ peak_profile_type' = new_type
                          /\ nextId' = nextId + 1
    /\ ops' = ops + 1
    /\ UNCHANGED <<background, background_type, comp>>
    /\ ExptFrame

\* __setattr__ of StandardComponent, Instrument and Peak: component.name = v
SetAttr ==
    /\ ops < MaxOps
    /\ \E name \in AttrNames, v \in AttrValues :
          /\ lastOp' = [op |-> "setattr", arg |-> name, had |-> comp.slots[name].id]
          /\ IF comp.locked /\ comp.slots[name].kind = "absent"
             THEN /\ exptErr' = MissingNameError(comp.cls)
                  /\ UNCHANGED <<comp, nextId>>
             ELSE /\ exptErr' = "none"
                  /\ IF comp.slots[name].kind \in InPlaceKinds(comp.cls)
                     THEN /\ comp' = [comp EXCEPT !.slots[name].value = v]
                          /\ UNCHANGED nextId
                     ELSE /\ comp' = [comp EXCEPT !.slots[name] =
                                         [kind |-> "plain", id |-> nextId, value |-> v]]
                          /\ nextId' = nextId + 1
    /\ ops' = ops + 1
    /\ UNCHANGED <<background, background_type, peak, peak_profile_type>>
    /\ ExptFrame

\* one project with one sample model and one experiment, the experiment of
\* either beam mode, and a component of any of the three classes
InitExperiment ==
    /\ InitEngine
    /\ nModels = 1
    /\ nExpts = 1
    /\ \A e \in 1..2 : hasData[e]
    /\ \E beam \in BeamModes : ExperimentAsCreated(beam)
    /\ \E cls \in ComponentClasses, locked \in BOOLEAN : comp = NewComponent(cls, locked)

NextExperiment == BackgroundAdd \/ SetBackgroundType \/ SetPeakProfileType \/ SetAttr

ExperimentSpec == InitExperiment /\ [][NextExperiment]_vars

\* ------------------------------------------------------------ claims
\* the current call has collected its free parameters
CallCollected ==
    \/ pc \in {"collected", "optimizing", "done", "raised"}
    \/ pc = "aborted" /\ why = "no_free"

\* C1: when the project has no sample models, or no experiments, or no
\* calculator, Analysis.fit returns normally: the call ends aborted (not raised)
\* in the very step it begins, no solver run and no objective evaluation
\* happens in it, and every value, every start_value and fit_results are what
\* they were before the call; until a new fit call no solver run and no
\* objective evaluation follows, and start_value and fit_results stay as they are.
C1_GuardedFitChangesNothing ==
    [][ /\ ( /\ fits' = fits + 1
             /\ entry' = "analysis"
             /\ (nModels = 0 \/ nExpts = 0 \/ calculator = "none") )
           => /\ pc' = "aborted"
              /\ solverRuns' = 0
              /\ evals' = 0
              /\ spent' = spent
              /\ value' = value
              /\ start_value' = start_value
              /\ fit_results' = fit_results
        /\ (pc = "aborted" /\ why = "precondition")
           => /\ pc' # "optimizing"
              /\ spent' = spent
              /\ start_value' = start_value
              /\ fit_results' = fit_results
      ]_vars

\* an Analysis.fit call rejected by its guard after an earlier Analysis.fit
\* left its result in fit_results
C1_Witness ==
    /\ pc = "aborted"
    /\ why = "precondition"
    /\ entry = "analysis"
    /\ fit_results # None
    /\ fits >= 2

\* C2 (as claimed): in a fit call whose collection yields no free parameter
\* the solver is never run, the objective never evaluated, no start_value
\* written and no value changed.
C2_ZeroFreeIsNoOp ==
    (CallCollected /\ parameters = <<>>)
        => /\ solverRuns = 0
           /\ evals = 0
           /\ value = callValue
           /\ start_value = callStart

\* C3: in every fit call, from before the first objective evaluation on, each
\* collected parameter's start_value is the value it held when fit() was
\* called, and start_value is not written while the solver runs.
C3_StartValueIsValueAtCall ==
    [][ /\ pc' \in {"optimizing", "done", "raised"}
           => \A i \in DOMAIN parameters' :
                 start_value'[parameters'[i]] = <<callValue'[parameters'[i]]>>
        /\ pc = "optimizing" => start_value' = start_value
      ]_vars

\* a refit, before its first evaluation, whose start value is what the
\* previous fit left (not the initial value)
C3_Witness ==
    /\ fits >= 2
    /\ entry = "analysis"
    /\ pc = "optimizing"
    /\ evals = 0
    /\ \E i \in DOMAIN parameters :
          /\ start_value[parameters[i]] = <<value[parameters[i]]>>
          /\ value[parameters[i]] # 1

\* C4 (as claimed): after an objective evaluation with vector v (here in a fit
\* run through Analysis.fit), the i-th collected parameter holds v[i], one
\* entry per collected parameter, and no parameter outside the collected list
\* has changed.
C4_PositionalSync ==
    (entry = "analysis" /\ pc = "optimizing" /\ last.tracked)
        => /\ Len(last.vec) = Len(parameters)
           /\ \A i \in DOMAIN parameters : value[parameters[i]] = last.vec[i]
           /\ \A p \in Params \ Range(parameters) : value[p] = callValue[p]

\* C5 (as claimed): the lmfit names of distinct collected parameters are
\* distinct, so the backend holds one entry per parameter and two collected
\* parameters may hold different values after a synchronisation.
C5_BackendNamesDistinct ==
    (entry = "analysis" /\ pc = "optimizing")
        => /\ \A i, j \in DOMAIN parameters :
                 i # j => LmfitName(parameters[i]) # LmfitName(parameters[j])
           /\ Len(lm_params.names) = Len(parameters)

\* C6 (as claimed): a residual vector with no more points than free
\* parameters is not tracked to a reduced chi-square; the evaluation ends in an
\* error.
C6_TooFewPointsIsAnError ==
    (entry = "analysis" /\ last.tracked)
        => Len(last.residuals) > Len(parameters)

\* C7 (as claimed): the pattern compared with an experiment's measured data is
\* the calculator's output plus the experiment's background.
C7_ComparedPatternHasBackground ==
    (entry = "analysis" /\ pc = "optimizing" /\ last.tracked)
        => \A e \in 1..nExpts : \A i \in DOMAIN Meas(e) :
              last.ycalc[e][i] = CalculatePattern(value, e)[i] + Bkg(e)[i]

C8_Offset(e) == IF e = 1 THEN 0 ELSE Len(Meas(1))

\* C8: the residual vector of every evaluation holds, experiment after
\* experiment in declaration order and point after point in data order,
\* (measured - calculated) / measured_uncertainty, and its length is the sum of
\* the experiments' point counts (so the same on every evaluation).
C8_ResidualVectorLayout ==
    last.tracked
        => /\ Len(last.residuals)
                = (IF nExpts >= 1 THEN Len(Meas(1)) ELSE 0)
                  + (IF nExpts >= 2 THEN Len(Meas(2)) ELSE 0)
           /\ \A e \in 1..nExpts : \A i \in DOMAIN Meas(e) :
                 LET r == last.residuals[C8_Offset(e) + i]
                 IN  /\ r.d > 0
                     /\ r.n * MeasSu(e)[i] = (Meas(e)[i] - last.ycalc[e][i]) * r.d

\* a second or later evaluation over two experiments of one and two points
C8_Witness ==
    /\ last.tracked
    /\ entry = "analysis"
    /\ pc = "optimizing"
    /\ nExpts = 2
    /\ evals >= 2
    /\ Len(last.residuals) = 3

\* C9 (as claimed): the reduced chi-square of a completed fit's result is the
\* minimum over the evaluations of that fit (where it is defined: more points
\* than free parameters).
C9_ResultIsMinimumOfThisFit ==
    (entry = "analysis" /\ pc = "done" /\ Len(last.residuals) > Len(parameters))
        => LET r == result[1].reduced_chi_square
           IN  /\ \E i \in DOMAIN fitEvals : fitEvals[i] = r
               /\ \A i \in DOMAIN fitEvals : ~FloatLess(fitEvals[i], r)

\* C10 (as claimed): when a fit call starts its solver the tracker is fresh:
\* iteration 0, previous and best unset, also in a later fit on the same
\* minimizer.
C10_TrackerFreshAtFitStart ==
    (entry = "analysis" /\ pc = "optimizing" /\ evals = 0)
        => /\ tracker.iteration = 0
           /\ tracker.previous.k = "none"
           /\ tracker.best.k = "none"
           /\ tracker.best_iteration = None

\* red is lower than prev by more than 1% of prev: prev - red > prev / 100
C11_LowerByMoreThanOnePercent(prev, red) ==
    /\ prev.k = "num"
    /\ red.k = "num"
    /\ 100 * (prev.n * red.d - red.n * prev.d) * prev.d > prev.n * prev.d * red.d

\* C11 (as claimed): an objective evaluation increments the tracker's iteration
\* counter, by exactly one, if and only if its reduced chi-square is lower than
\* the recorded previous value by more than 1% of that value, and otherwise
\* leaves the counter alone; the recorded previous value changes only on the
\* first evaluation and on such an increment.
C11_IterationAdvancesOnOnePercent ==
    [][ (entry = "analysis" /\ pc = "optimizing" /\ evals' = evals + 1 /\ last'.tracked)
        => LET red == fitEvals'[Len(fitEvals')]
           IN  /\ tracker.previous.k # "none"
                  => IF C11_LowerByMoreThanOnePercent(tracker.previous, red)
                     THEN tracker'.iteration = tracker.iteration + 1
                     ELSE tracker'.iteration = tracker.iteration
               /\ tracker'.previous # tracker.previous
                  => \/ tracker.previous.k = "none"
                     \/ tracker'.iteration = tracker.iteration + 1
      ]_vars

\* C12 (as claimed): when a fit has completed, every collected parameter holds
\* the backend's final value, and its uncertainty is the standard error the
\* backend estimated for it, or unset when the backend estimated none.
C12_FinalValueAndUncertaintyWritten ==
    (entry = "analysis" /\ pc = "done")
        => LET raw == result[1].raw_result
           IN  \A i \in DOMAIN parameters :
                  LET p == parameters[i]
                      k == LmIndex(raw.params, LmfitName(p))
                  IN  /\ value[p] = raw.params.vals[k]
                      /\ uncertainty[p] = StdErr(raw, k)

\* the fit call has ended in failure: an exception left the objective, or the
\* backend returned reporting that it did not converge
C13_FitFailed ==
    \/ pc = "raised"
    \/ pc = "done" /\ ~result[1].raw_result.success

\* C13 (as claimed): a fit that failed, by non-convergence or by an exception
\* inside the objective, ends with a FitResult of its own whose success flag
\* is false and whose message is populated.
C13_FailureYieldsUnsuccessfulResult ==
    (entry = "analysis" /\ C13_FitFailed)
        => /\ pc = "done"
           /\ result # None
           /\ result[1].success = FALSE
           /\ result[1].message # ""

\* C14 (as claimed): the FitResult of a fit whose backend completed without
\* reporting failure has success = TRUE.
C14_CompletedFitReportsSuccess ==
    (entry = "analysis" /\ pc = "done" /\ result[1].raw_result.success)
        => result[1].success = TRUE

\* C15 (as claimed): two Analysis.fit calls that ended in different ways (guard
\* rejected, no free parameter, exception, not converged, completed) left
\* different outcomes to the caller.
C15_EndingsDistinguishable ==
    \A a, b \in ended : a.kind # b.kind => a.outcome # b.outcome

\* some experiment of the project has no measured data
C16_DataMissing == \E e \in 1..nExpts : ~hasData[e]

\* C16 (as claimed): when an experiment has no measured data, a fit that gets
\* to evaluate the objective is aborted at its first evaluation by an error
\* that reports the missing data, and no residual vector is produced.
C16_MissingDataIsDescriptiveError ==
    (entry = "analysis" /\ C16_DataMissing /\ evals >= 1
        /\ pc \in {"optimizing", "done", "raised"})
        => /\ pc = "raised"
           /\ evals = 1
           /\ ~last.tracked
           /\ fitEvals = <<>>
           /\ err = "MissingDataError"

\* C17: when calculate_pattern raises in an objective evaluation, that error
\* itself ends the fit call: no experiment after the failing one is calculated
\* in that evaluation, no residual is tracked, no FitResults is built from it,
\* and until a new fit call no further evaluation or solver run happens.
C17_CalculatorErrorPropagates ==
    [][ /\ (pc = "optimizing" /\ evals' = evals + 1
              /\ \E k \in 1..nExpts :
                    /\ FailKind(value', k) = "CalculatorError"
                    /\ \A f \in 1..(k - 1) : FailKind(value', f) = "none")
           => /\ pc' = "raised"
              /\ err' = "CalculatorError"
              /\ last'.calls = last'.raisedAt
              /\ \A k \in 1..nExpts :
                    (FailKind(value', k) = "CalculatorError"
                        /\ \A f \in 1..(k - 1) : FailKind(value', f) = "none")
                    => last'.calls = k
              /\ ~last'.tracked
              /\ tracker' = tracker
              /\ result' = result
              /\ fit_results' = fit_results
        /\ pc = "raised"
           => /\ pc' # "optimizing"
              /\ spent' = spent
              /\ tracker' = tracker
      ]_vars

\* a fit over two experiments in which the calculator raised at the first
\* experiment of the second evaluation
C17_Witness ==
    /\ entry = "analysis"
    /\ pc = "raised"
    /\ err = "CalculatorError"
    /\ nExpts = 2
    /\ evals = 2
    /\ last.calls = 1

C20_CollectedExactlyFreeParameters ==
    (pc = "collected")
        => /\ Range(parameters) = {p \in Params : Exists(p) /\ free[p]}
           /\ Range(parameters) \cap Descriptors = {}
           /\ \A i, j \in DOMAIN parameters : parameters[i] = parameters[j] => i = j

\* a collection over a sample model and two experiments that kept one free
\* Parameter and left out a Parameter that is not free
C20_Witness ==
    /\ pc = "collected"
    /\ entry = "analysis"
    /\ nExpts = 2
    /\ parameters = <<"a", "s2">>
    /\ ~free["s1"]

\* C21: during one fit call every objective evaluation is applied to the
\* parameter list collected at fit start: the list the evaluation used is the
\* collected list, which is the free parameters of the project in collection
\* order, and from collection to the end of the call the list does not change.
C21_EvaluationsUseCollectedList ==
    [][ /\ (pc = "optimizing" /\ evals' = evals + 1)
           => /\ last'.params = parameters
              /\ last'.params = CollectFreeParameters
              /\ evals >= 1 => last'.params = last.params
        /\ (pc \in {"collected", "optimizing"} /\ fits' = fits)
           => parameters' = parameters
      ]_vars

\* the second evaluation of a fit of Analysis.fit over three free parameters
C21_Witness ==
    /\ entry = "analysis"
    /\ evals = 2
    /\ last.params = <<"a", "s1", "s2">>

\* the stage of the current fit call as its caller can tell it: an ended call
\* is failed when an exception left it or its FitResults says success = false
C22_Stage ==
    CASE pc = "raised" -> "failed"
      [] pc = "done" /\ ~result[1].success -> "failed"
      [] OTHER -> pc

\* the stages of a call with a non-empty free set follow each other in order,
\* the backend's verdict left aside
C22_StagesFollowInOrder ==
    [][ /\ (fits' = fits + 1 /\ pc' # "aborted")
           => /\ pc' = "collected"
              /\ parameters' = CollectFreeParameters
        /\ (pc = "collected" /\ parameters # <<>> /\ pc' # pc)
           => /\ pc' = "optimizing"
              /\ start_value' = SnapshotStartValues(parameters, value, start_value)
        /\ (pc = "optimizing" /\ parameters # <<>>)
           => pc' \in {"optimizing", "done", "raised"}
        /\ (pc = "optimizing" /\ parameters # <<>> /\ pc' = "done")
           => /\ evals >= 1
              /\ value' = SyncResultToParameters(parameters, lm_params, value)
              /\ result' # None
        /\ (pc \in {"done", "raised", "aborted"} /\ pc' # pc)
           => \/ fits' = fits + 1
              \/ edits' = edits + 1
              \/ nModels' # nModels
      ]_vars

\* C22 (as claimed): each fit call with a non-empty free set passes through
\* collect, snapshot of the start values, optimizing, synchronizing, done, in
\* that order, and a backend-reported failure leads from optimizing to a
\* failed end state. The order of the stages is C22_StagesFollowInOrder; this
\* is the end of the optimizing stage of Analysis.fit: the call ends done when
\* the backend reports success and failed when it reports failure.
C22_StagesInOrderFailureEndsFailed ==
    [][ (entry = "analysis" /\ pc = "optimizing" /\ parameters # <<>> /\ pc' = "done")
           => (C22_Stage' = "done" <=> result'[1].raw_result.success)
      ]_vars

C24_UnknownBackendFailsAtSelection ==
    [][ /\ (switches' = switches + 1 /\ selTried' \notin KnownSelections)
           => /\ selErr' = "ConfigurationError"
              /\ selection' = selection
              /\ <<tracker, result, results, fit_results>>' =
                     <<tracker, result, results, fit_results>>
              /\ <<config, value, start_value>>' = <<config, value, start_value>>
        /\ (switches' = switches + 1 /\ selTried' \in KnownSelections)
           => /\ selErr' = "none"
              /\ selection' = selTried'
        /\ selection' \in KnownSelections
        /\ err' # "ConfigurationError"
      ]_vars

\* a fit completed after an unknown name was refused while a backend other
\* than the default was selected
C24_Witness ==
    /\ switches = 2
    /\ selTried = "bogus"
    /\ selErr = "ConfigurationError"
    /\ selection = "lmfit (least_squares)"
    /\ pc = "done"

\* C25: switching the backend between two fits changes no parameter value, no
\* free flag, no start value or uncertainty and no parameter's existence, so
\* the free parameters to collect are the same before and after the switch;
\* and every Analysis.fit call, whatever the selection, collects exactly
\* those, without error.
C25_SwitchChangesOnlyAdapter ==
    [][ /\ switches' = switches + 1
           => /\ <<value, free, start_value, uncertainty>>' =
                     <<value, free, start_value, uncertainty>>
              /\ <<nModels, nExpts>>' = <<nModels, nExpts>>
              /\ CollectFreeParameters' = CollectFreeParameters
        /\ (fits' = fits + 1 /\ pc' = "collected")
           => /\ parameters' = CollectFreeParameters
              /\ err' = "none"
      ]_vars

\* a second fit, run after a switch to another backend, refined both free
\* parameters the first fit refined
C25_Witness ==
    /\ fits = 2
    /\ switches >= 1
    /\ selection = "lmfit (least_squares)"
    /\ selErr = "none"
    /\ pc = "done"
    /\ parameters = <<"a", "s1">>
    /\ fit_results # None
    /\ result[1].parameters = <<"a", "s1">>

\* C28 (as claimed): when the last Analysis.fit call has ended, fit_results
\* belongs to that call: it is the FitResults that call built, and when the
\* call aborted without building one, no earlier result is exposed.
C28_ResultsBelongToLastCall ==
    /\ (entry = "analysis" /\ pc = "done") => fit_results = result
    /\ (entry = "analysis" /\ pc = "aborted") => fit_results = None

\* a <= b on floats: every comparison with nan is false
C29_LessOrEqual(a, b) ==
    CASE a.k = "nan" \/ b.k = "nan" -> FALSE
      [] a.k = "inf" -> b.k = "inf"
      [] b.k = "inf" -> TRUE
      [] OTHER -> a.n * b.d <= b.n * a.d

\* the iteration counter never decreases and best_iteration never exceeds it
C29_IterationsOrdered ==
    [][ /\ tracker'.iteration >= tracker.iteration
        /\ tracker'.best_iteration # None
               => tracker'.best_iteration[1] <= tracker'.iteration
      ]_vars

\* C29 (as claimed): after every tracked evaluation the tracker's best reduced
\* chi-square is less than or equal to the reduced chi-square of every
\* evaluation tracked so far, and best_iteration is set and not above the
\* iteration counter.
C29_BestIsLowestTracked ==
    evals >= 1
        => /\ \A i \in DOMAIN fitEvals : C29_LessOrEqual(tracker.best, fitEvals[i])
           /\ tracker.best_iteration # None
           /\ tracker.best_iteration[1] <= tracker.iteration

\* the claim where the reduced chi-square is defined: more points than parameters
C29_BestIsLowestWhenDefined ==
    (evals >= 1 /\ Len(last.residuals) > Len(parameters))
        => /\ \A i \in DOMAIN fitEvals : C29_LessOrEqual(tracker.best, fitEvals[i])
           /\ tracker.best_iteration # None
           /\ tracker.best_iteration[1] <= tracker.iteration

\* C30: setting background_type to a supported type replaces the background
\* by a new object of that type with no rows, whatever rows the old one had,
\* and records the type; setting an unsupported type leaves the background
\* object, its rows and the recorded type as they were
C30_BackgroundTypeReplacesOrKeeps ==
    [][(ops' = ops + 1 /\ lastOp'.op = "background_type") =>
          IF lastOp'.arg \in SupportedBackgrounds
          THEN /\ background'.id # background.id
               /\ background'.type = lastOp'.arg
               /\ background'.data = <<>>
               /\ background_type' = lastOp'.arg
          ELSE /\ background' = background
               /\ background_type' = background_type]_vars

\* a background with rows was replaced by an empty one of the other type
C30_Witness ==
    /\ lastOp.op = "background_type"
    /\ lastOp.arg = "chebyshev polynomial"
    /\ lastOp.had > 0
    /\ background.type = "chebyshev polynomial"
    /\ background.data = <<>>
    /\ background_type = "chebyshev polynomial"

\* a step that assigns to an attribute of a locked component
C26_LockedAssignment == ops' = ops + 1 /\ lastOp'.op = "setattr" /\ comp.locked

\* C26: on a locked component, assigning to a name that does not exist raises
\* an error and leaves the component unchanged, and assigning to a name bound
\* to a Parameter or Descriptor changes the value of that object and nothing
\* else, the object staying the same
C26_LockedAssignmentRaisesOrUpdates ==
    [][C26_LockedAssignment =>
          LET old == comp.slots[lastOp'.arg]
          IN  /\ old.kind = "absent" => exptErr' # "none" /\ comp' = comp
              /\ old.kind \in {"Parameter", "Descriptor"} =>
                    /\ comp'.slots[lastOp'.arg].kind = old.kind
                    /\ comp'.slots[lastOp'.arg].id = old.id
                    /\ \A n \in AttrNames \ {lastOp'.arg} :
                          comp'.slots[n] = comp.slots[n]]_vars

\* C26, the part about adding: no assignment to a locked component adds an
\* attribute or changes the component when the name does not exist
C26_LockedNeverAdds ==
    [][C26_LockedAssignment /\ comp.slots[lastOp'.arg].kind = "absent" =>
          comp' = comp]_vars

\* C26, the part about Parameters: assigning to a name bound to a Parameter
\* keeps the object and sets its value
C26_ParameterUpdatedInPlace ==
    [][C26_LockedAssignment /\ comp.slots[lastOp'.arg].kind = "Parameter" =>
          /\ comp'.slots[lastOp'.arg].kind = "Parameter"
          /\ comp'.slots[lastOp'.arg].id = comp.slots[lastOp'.arg].id
          /\ exptErr' = "none"]_vars

\* a step that assigns to the experiment's peak_profile_type
C27_ProfileAssignment == ops' = ops + 1 /\ lastOp'.op = "peak_profile_type"

\* C27: setting peak_profile_type to a profile supported for the beam mode
\* makes peak_profile_type read back that profile and gives the peak exactly
\* the parameter set of that profile; setting an unsupported one leaves the
\* peak and the recorded profile type as they were
C27_ProfileTypeSwitchesPeak ==
    [][C27_ProfileAssignment =>
          IF lastOp'.arg \in ProfilesOf(beam_mode)
          THEN /\ peak_profile_type' = lastOp'.arg
               /\ peak'.attrs = ProfileAttrs(beam_mode, lastOp'.arg)
          ELSE /\ peak' = peak
               /\ peak_profile_type' = peak_profile_type]_vars

\* C27, the part about unsupported names: the peak and the recorded profile
\* type stay as they were
C27_UnsupportedChangesNothing ==
    [][C27_ProfileAssignment /\ lastOp'.arg \notin ProfilesOf(beam_mode) =>
          peak' = peak /\ peak_profile_type' = peak_profile_type]_vars

====
